---- MODULE Spec2Model ----
(***************************************************************************)
(* Ledger + snapshot subsystem of the Adox employee portal (src/app.py).   *)
(*                                                                         *)
(* The store is one SQLite database shared by concurrent request workers.  *)
(* Each worker owns a connection (get_db) in Python's default sqlite3      *)
(* transaction mode: a SELECT runs outside any transaction and sees the    *)
(* committed database; the first INSERT/DELETE opens a transaction and     *)
(* takes the database-wide write lock; commit() publishes the worker's     *)
(* changes; an exception or a crash closes the connection without commit   *)
(* and the changes are rolled back (close_db).                             *)
(*                                                                         *)
(* Text values (form fields, names, dates) are sequences of one-character  *)
(* strings.  A REAL amount is held as an integer number of hundredths.     *)
(***************************************************************************)
EXTENDS Integers, Sequences, FiniteSets, TLC

\* ------------------------------------------------------------------ bounds
\* Number of transaction identifiers that can be generated in one behaviour.
MaxId == 4

\* Number of requests received in one behaviour.
MaxReq == 4

\* Number of records in a ledger the reports page is rendered from.
MaxRows == 3

\* Concurrent request workers (one connection each).
Workers == {1, 2}

\* The first two seeded users: 1 is "admin", 2 is the employee "ana".
Users == {1, 2}

Role(u) == IF u = 1 THEN "admin" ELSE "employee"

\* Variant of CurrentUser: the uid of the session is trusted without looking
\* the user up.
CurrentUserBySession(uid) == uid

\* current_user(): the id of the users row the session's uid selects, 0 for
\* None (the session has no uid, or no user has that id).
CurrentUser(uid) == IF uid # 0 /\ uid \in Users THEN uid ELSE 0

\* login_required: the wrapped handler runs only for a request with a user.
LoginRequired(uid) == CurrentUser(uid) # 0

\* ------------------------------------------------------------ text helpers
Alphabet == <<" ", "-", ".", "0", "1", "2", "3", "4", "5", "6", "7", "8", "9",
              "a", "b", "c", "x", "y">>

Ord(c) == CHOOSE i \in 1..Len(Alphabet) : Alphabet[i] = c

IsSpace(c) == c = " "

RECURSIVE LStrip(_)
LStrip(s) == IF s # <<>> /\ IsSpace(Head(s)) THEN LStrip(Tail(s)) ELSE s

RECURSIVE RStrip(_)
RStrip(s) == IF s # <<>> /\ IsSpace(s[Len(s)])
             THEN RStrip(SubSeq(s, 1, Len(s) - 1)) ELSE s

\* str.strip()
Strip(s) == RStrip(LStrip(s))

\* Python truthiness of a form value (None and "" are both falsy; a missing
\* form key is modelled as the empty text).
Truthy(s) == s # <<>>

\* TEXT comparison under SQLite's BINARY collation: s sorts before t.
RECURSIVE TextLess(_, _)
TextLess(s, t) ==
  IF t = <<>> THEN FALSE
  ELSE IF s = <<>> THEN TRUE
  ELSE IF Head(s) # Head(t) THEN Ord(Head(s)) < Ord(Head(t))
  ELSE TextLess(Tail(s), Tail(t))

\* ------------------------------------------------------- numeric parsing
IsDigit(c) == Ord(c) \in 4..13

DigitVal(c) == Ord(c) - 4

RECURSIVE AllDigits(_)
AllDigits(s) == s = <<>> \/ (IsDigit(Head(s)) /\ AllDigits(Tail(s)))

DotAt(s) == IF \E i \in 1..Len(s) : s[i] = "."
            THEN CHOOSE i \in 1..Len(s) : s[i] = "." ELSE 0

\* Unsigned decimal literal with at most two fraction digits.
UnsignedOk(s) ==
  LET k == DotAt(s) IN
  IF k = 0 THEN s # <<>> /\ AllDigits(s)
  ELSE LET ip == SubSeq(s, 1, k - 1)
           fp == SubSeq(s, k + 1, Len(s))
       IN AllDigits(ip) /\ AllDigits(fp) /\ Len(fp) <= 2
          /\ (ip # <<>> \/ fp # <<>>)

\* A natural number of any size is the sequence of its decimal digits, most
\* significant first and without leading zeros (<<>> is zero).
RECURSIVE Trim0(_)
Trim0(d) == IF d # <<>> /\ Head(d) = 0 THEN Trim0(Tail(d)) ELSE d

Rev(d) == [i \in 1..Len(d) |-> d[Len(d) + 1 - i]]

RECURSIVE BigLess(_, _)
BigLess(a, b) ==
  IF Len(a) # Len(b) THEN Len(a) < Len(b)
  ELSE IF a = <<>> THEN FALSE
  ELSE IF Head(a) # Head(b) THEN Head(a) < Head(b)
  ELSE BigLess(Tail(a), Tail(b))

\* Least significant digit first, with carry c.
RECURSIVE AddLE(_, _, _)
AddLE(a, b, c) ==
  IF a = <<>> /\ b = <<>> THEN (IF c = 0 THEN <<>> ELSE <<c>>)
  ELSE LET x == IF a = <<>> THEN 0 ELSE Head(a)
           y == IF b = <<>> THEN 0 ELSE Head(b)
           t == x + y + c
       IN <<t % 10>> \o AddLE(IF a = <<>> THEN <<>> ELSE Tail(a),
                              IF b = <<>> THEN <<>> ELSE Tail(b), t \div 10)

BigAdd(a, b) == Trim0(Rev(AddLE(Rev(a), Rev(b), 0)))

\* a - b for a >= b, least significant digit first, with borrow c.
RECURSIVE SubLE(_, _, _)
SubLE(a, b, c) ==
  IF a = <<>> THEN <<>>
  ELSE LET y == IF b = <<>> THEN 0 ELSE Head(b)
           t == Head(a) - y - c
       IN <<(t + 10) % 10>> \o SubLE(Tail(a),
                                     IF b = <<>> THEN <<>> ELSE Tail(b),
                                     IF t < 0 THEN 1 ELSE 0)

BigSub(a, b) == Trim0(Rev(SubLE(Rev(a), Rev(b), 0)))

\* The value of a short digit sequence, and the digits of a small number.
RECURSIVE BigToInt(_, _)
BigToInt(d, acc) ==
  IF d = <<>> THEN acc ELSE BigToInt(Tail(d), 10 * acc + Head(d))

RECURSIVE IntToBig(_)
IntToBig(n) == IF n = 0 THEN <<>> ELSE Append(IntToBig(n \div 10), n % 10)

\* 2^53 and 2^54, in hundredths: up to 2^53 every integer is a double, from
\* 2^53 to 2^54 only the even integers are.
Two53 == <<9, 0, 0, 7, 1, 9, 9, 2, 5, 4, 7, 4, 0, 9, 9, 2, 0, 0>>

Two54 == <<1, 8, 0, 1, 4, 3, 9, 8, 5, 0, 9, 4, 8, 1, 9, 8, 4, 0, 0>>

\* The double nearest to the magnitude h (in hundredths), ties to the even
\* mantissa.  Below 2^53 a magnitude with two decimals is taken as held
\* exactly (its representation error is far below a hundredth); between
\* 2^53 and 2^54 the doubles are the even integers.  Magnitudes of 2^54 and
\* more are outside the inputs.
RoundDouble(h) ==
  IF BigLess(h, Two53) THEN h
  ELSE LET low == BigToInt(SubSeq(h, Len(h) - 3, Len(h)), 0)
           r == low % 200
           down == BigSub(h, IntToBig(r))
           up == BigAdd(h, IntToBig(200 - r))
       IN IF r = 0 THEN h
          ELSE IF r < 100 THEN down
          ELSE IF r > 100 THEN up
          ELSE IF (low - r) % 400 = 0 THEN down ELSE up

\* The magnitude, in hundredths, of an unsigned decimal literal.
UnsignedVal(s) ==
  LET k == DotAt(s)
      ip == IF k = 0 THEN s ELSE SubSeq(s, 1, k - 1)
      fp == IF k = 0 THEN <<>> ELSE SubSeq(s, k + 1, Len(s))
      ds == [i \in 1..Len(ip) |-> DigitVal(ip[i])]
      fs == [i \in 1..2 |-> IF i <= Len(fp) THEN DigitVal(fp[i]) ELSE 0]
  IN Trim0(ds \o fs)

\* float(text): surrounding blanks and a leading minus sign are accepted;
\* anything else raises ValueError.  A float is its sign and its magnitude in
\* hundredths.
FloatOk(s) ==
  LET u == Strip(s) IN
  IF u # <<>> /\ Head(u) = "-" THEN UnsignedOk(Tail(u)) ELSE UnsignedOk(u)

FloatVal(s) ==
  LET u == Strip(s) IN
  IF u # <<>> /\ Head(u) = "-"
  THEN [neg |-> TRUE, mag |-> RoundDouble(UnsignedVal(Tail(u)))]
  ELSE [neg |-> FALSE, mag |-> RoundDouble(UnsignedVal(u))]

\* int(x) for a float x: truncation towards zero.
IntOfFloat(x) ==
  LET units == BigToInt(SubSeq(x.mag, 1, Len(x.mag) - 2), 0)
  IN IF x.neg THEN 0 - units ELSE units

\* x + y in floating point: the exact sum, rounded to a double.
FloatAdd(x, y) ==
  IF x.neg = y.neg
  THEN [neg |-> x.neg, mag |-> RoundDouble(BigAdd(x.mag, y.mag))]
  ELSE IF BigLess(x.mag, y.mag)
       THEN [neg |-> y.neg, mag |-> RoundDouble(BigSub(y.mag, x.mag))]
       ELSE IF x.mag = y.mag THEN [neg |-> FALSE, mag |-> <<>>]
       ELSE [neg |-> x.neg, mag |-> RoundDouble(BigSub(x.mag, y.mag))]

\* x >= 0
FloatNonNeg(x) == ~x.neg \/ x.mag = <<>>

\* ------------------------------------------------------------ relations
\* Columns copied into a snapshot payload (everything except id, user_id and
\* created_at).
Columns == <<"date", "time", "client", "origin", "currency", "amount",
             "recipient", "bank", "kz">>

ColumnSet == {Columns[i] : i \in 1..Len(Columns)}

\* One result row of SELECT date,time,...,kz: the nine columns of row r.
Project(r) == [c \in ColumnSet |-> r[c]]

\* Variant of SelectLedger: the WHERE user_id=? clause is missing.
SelectLedgerAll(table, u) == [i \in 1..Len(table) |-> Project(table[i])]

\* SELECT date,...,kz FROM transactions WHERE user_id=u (rowid order).
RECURSIVE SelectLedger(_, _)
SelectLedger(table, u) ==
  IF table = <<>> THEN <<>>
  ELSE IF Head(table).user_id = u
       THEN <<Project(Head(table))>> \o SelectLedger(Tail(table), u)
       ELSE SelectLedger(Tail(table), u)

\* The rows of owner u, whole, in rowid order.
RECURSIVE OwnerRows(_, _)
OwnerRows(table, u) ==
  IF table = <<>> THEN <<>>
  ELSE IF Head(table).user_id = u
       THEN <<Head(table)>> \o OwnerRows(Tail(table), u)
       ELSE OwnerRows(Tail(table), u)

\* Variant of DeleteLedger: the rows are matched on id instead of user_id.
DeleteLedgerById(table, u) ==
  LET keep == {i \in 1..Len(table) : table[i].id # u}
      F[k \in 0..Len(table)] ==
        IF k = 0 THEN <<>>
        ELSE IF k \in keep THEN Append(F[k - 1], table[k]) ELSE F[k - 1]
  IN F[Len(table)]

\* Variant of DeleteLedger: an admin's delete is not scoped to its own rows.
DeleteLedgerElevated(table, u) ==
  IF Role(u) = "admin" THEN <<>>
  ELSE SelectSeq(table, LAMBDA r : r.user_id # u)

\* DELETE FROM transactions WHERE user_id=u
RECURSIVE DeleteLedger(_, _)
DeleteLedger(table, u) ==
  IF table = <<>> THEN <<>>
  ELSE IF Head(table).user_id = u
       THEN DeleteLedger(Tail(table), u)
       ELSE <<Head(table)>> \o DeleteLedger(Tail(table), u)

\* DELETE FROM transactions WHERE id=i
RECURSIVE DeleteById(_, _)
DeleteById(table, i) ==
  IF table = <<>> THEN <<>>
  ELSE IF Head(table).id = i
       THEN DeleteById(Tail(table), i)
       ELSE <<Head(table)>> \o DeleteById(Tail(table), i)

\* Variant of DeleteByIdUser: the AND user_id=? clause is missing.
DeleteByIdAnyUser(table, i, u) == SelectSeq(table, LAMBDA r : r.id # i)

\* DELETE FROM transactions WHERE id=i AND user_id=u
RECURSIVE DeleteByIdUser(_, _, _)
DeleteByIdUser(table, i, u) ==
  IF table = <<>> THEN <<>>
  ELSE IF Head(table).id = i /\ Head(table).user_id = u
       THEN DeleteByIdUser(Tail(table), i, u)
       ELSE <<Head(table)>> \o DeleteByIdUser(Tail(table), i, u)

\* json.dumps of a list of dicts: one object per row, its members in column
\* order, each a <<key, value>> pair.
RECURSIVE Dumps(_)
Dumps(payload) ==
  IF payload = <<>> THEN <<>>
  ELSE <<[i \in 1..Len(Columns) |-> <<Columns[i], Head(payload)[Columns[i]]>>]>>
       \o Dumps(Tail(payload))

\* json.loads: each object becomes a dict from its keys to its values.
RECURSIVE Loads(_)
Loads(text) ==
  IF text = <<>> THEN <<>>
  ELSE LET obj == Head(text)
           keys == {obj[i][1] : i \in 1..Len(obj)}
       IN <<[k \in keys |-> obj[CHOOSE i \in 1..Len(obj) : obj[i][1] = k][2]]>>
          \o Loads(Tail(text))

\* Variant of DropKey: the conflict is decided on user_id alone.
DropKeyByUser(bk, u, n) == {b \in bk : b.user_id # u}

\* The backups relation is a set of rows (user_id, name, payload_json); it is
\* never scanned in order.
\* The rows left once those that conflict with (u, n) on UNIQUE(user_id, name)
\* are removed.
DropKey(bk, u, n) == {b \in bk : ~(b.user_id = u /\ b.name = n)}

\* Variant of InsertOrReplace: INSERT OR IGNORE keeps the stored row.
InsertOrIgnore(bk, u, n, text) ==
  IF \E b \in bk : b.user_id = u /\ b.name = n THEN bk
  ELSE bk \cup {[user_id |-> u, name |-> n, payload_json |-> text]}

\* Variant of InsertOrReplace: the new row is added next to the stored one.
InsertBeside(bk, u, n, text) ==
  bk \cup {[user_id |-> u, name |-> n, payload_json |-> text]}

\* Variant of InsertOrReplace: the uniqueness constraint is on the name alone,
\* so the row of any owner under that name conflicts and is deleted.
InsertOrReplaceByName(bk, u, n, text) ==
  {b \in bk : b.name # n} \cup
    {[user_id |-> u, name |-> n, payload_json |-> text]}

\* INSERT OR REPLACE INTO backups(user_id,name,payload_json,...): the
\* conflicting row is deleted, then the new row is inserted.
InsertOrReplace(bk, u, n, text) ==
  DropKey(bk, u, n) \cup {[user_id |-> u, name |-> n, payload_json |-> text]}

\* Variant of SelectBackup: the user_id=? clause is missing.
SelectBackupByName(bk, u, n) == {b \in bk : b.name = n}

\* SELECT * FROM backups WHERE user_id=u AND name=n: the matching rows.
SelectBackup(bk, u, n) == {b \in bk : b.user_id = u /\ b.name = n}

\* fetchone() on a non-empty result.
FetchOne(rows) == CHOOSE b \in rows : TRUE

\* The row save_tx inserts for form d, path parameter currency and user u.
NewRow(i, u, currency, d) ==
  [id |-> i, user_id |-> u, date |-> d.date, time |-> d.time,
   client |-> Strip(d.client), origin |-> Strip(d.origin),
   currency |-> currency, amount |-> FloatVal(d.amount),
   recipient |-> Strip(d.recipient), bank |-> Strip(d.bank),
   kz |-> IntOfFloat(FloatVal(d.kz)), created_at |-> i]

\* Variant of RestoredRow: date and time are bound in the wrong order.
RestoredRowSwapped(i, u, item) ==
  [id |-> i, user_id |-> u, date |-> item["time"], time |-> item["date"],
   client |-> item["client"],
   origin |-> IF "origin" \in DOMAIN item THEN item["origin"] ELSE <<>>,
   currency |-> item["currency"], amount |-> item["amount"],
   recipient |-> item["recipient"],
   bank |-> IF "bank" \in DOMAIN item THEN item["bank"] ELSE <<>>,
   kz |-> item["kz"], created_at |-> i]

\* The row load_backup inserts for one payload item.
RestoredRow(i, u, item) ==
  [id |-> i, user_id |-> u, date |-> item["date"], time |-> item["time"],
   client |-> item["client"],
   origin |-> IF "origin" \in DOMAIN item THEN item["origin"] ELSE <<>>,
   currency |-> item["currency"], amount |-> item["amount"],
   recipient |-> item["recipient"],
   bank |-> IF "bank" \in DOMAIN item THEN item["bank"] ELSE <<>>,
   kz |-> item["kz"], created_at |-> i]

\* all(d.get(k) for k in ("date","time","client","recipient","amount","kz"))
RequiredOk(d) ==
  /\ Truthy(d.date) /\ Truthy(d.time) /\ Truthy(d.client)
  /\ Truthy(d.recipient) /\ Truthy(d.amount) /\ Truthy(d.kz)

\* r sorts strictly before s under ORDER BY date DESC, time DESC.
Before(r, s) ==
  \/ TextLess(s.date, r.date)
  \/ (s.date = r.date /\ TextLess(s.time, r.time))

\* The sorter keeps rows with equal keys in scan order: r goes in front of
\* the first row it sorts strictly before.
RECURSIVE SortInsert(_, _)
SortInsert(sorted, r) ==
  IF sorted = <<>> THEN <<r>>
  ELSE IF Before(r, Head(sorted)) THEN <<r>> \o sorted
       ELSE <<Head(sorted)>> \o SortInsert(Tail(sorted), r)

RECURSIVE OrderBy(_, _)
OrderBy(rows, acc) ==
  IF rows = <<>> THEN acc ELSE OrderBy(Tail(rows), SortInsert(acc, Head(rows)))

\* reports_page: the rows shown to user u.
ListAll(table) == OrderBy(table, <<>>)

\* Variant of ListOwn: the WHERE t.user_id=? clause is missing.
ListOwnUnscoped(table, u) == OrderBy(table, <<>>)

ListOwn(table, u) == OrderBy(OwnerRows(table, u), <<>>)

ReportRows(table, u) ==
  IF Role(u) = "admin" THEN ListAll(table) ELSE ListOwn(table, u)

\* The float 0.0, and Python's sum(): the addends are added one by one, in
\* row order, to the running total (CPython 3.12 and later compensate the
\* running total; with two addends the result is the same).
Zero == [neg |-> FALSE, mag |-> <<>>]

\* sum(r["amount"] for r in rows if r["currency"] == currency)
RECURSIVE SumAmount(_, _, _)
SumAmount(rows, currency, acc) ==
  IF rows = <<>> THEN acc
  ELSE SumAmount(Tail(rows), currency,
                 IF Head(rows).currency = currency
                 THEN FloatAdd(acc, Head(rows).amount) ELSE acc)

\* sum(r["kz"] for r in rows), on integers.
RECURSIVE SumKz(_, _)
SumKz(rows, acc) ==
  IF rows = <<>> THEN acc ELSE SumKz(Tail(rows), acc + Head(rows).kz)

\* What reports_page hands to its template for user u.
ReportPage(table, u) ==
  LET rows == ReportRows(table, u)
  IN [rows |-> rows, sumGBP |-> SumAmount(rows, "GBP", Zero),
      sumEUR |-> SumAmount(rows, "EUR", Zero), sumKZ |-> SumKz(rows, 0)]

\* ------------------------------------------------------------------ inputs
\* Submitted transaction forms.  A missing key and an empty value are the
\* same to save_tx (d.get(k) is falsy for both).
F1 == [date |-> <<"1">>, time |-> <<"1">>, client |-> <<"a">>, origin |-> <<>>,
       recipient |-> <<"b">>, bank |-> <<>>, amount |-> <<"5">>,
       kz |-> <<"9">>]

F2 == [date |-> <<"2">>, time |-> <<"1">>, client |-> <<" ", "c">>,
       origin |-> <<"x">>, recipient |-> <<"b">>, bank |-> <<"y">>,
       amount |-> <<"1", ".", "5">>, kz |-> <<"-", "2", ".", "7">>]

F3 == [date |-> <<"1">>, time |-> <<"1">>, client |-> <<>>, origin |-> <<>>,
       recipient |-> <<"b">>, bank |-> <<>>, amount |-> <<"5">>,
       kz |-> <<"9">>]

F4 == [date |-> <<"1">>, time |-> <<"1">>, client |-> <<"a">>, origin |-> <<>>,
       recipient |-> <<"b">>, bank |-> <<>>, amount |-> <<"a">>,
       kz |-> <<"9">>]

\* (currency path parameter, form) pairs posted to /tx/<currency>.
TxInputs == {<<"GBP", F1>>, <<"EUR", F2>>, <<"GBP", F3>>, <<"GBP", F4>>,
             <<"x", F1>>}

\* Values of the "name" form field of the backup and reset forms: one that
\* is blank after strip() and one that strip() shortens.
NameInputs == {<<" ">>, <<" ", "x">>}

\* Identifiers a delete request can carry in its path: 0 was never issued.
TxIdInputs == 0..MaxId

NoForm == [date |-> <<>>, time |-> <<>>, client |-> <<>>, origin |-> <<>>,
           recipient |-> <<>>, bank |-> <<>>, amount |-> <<>>, kz |-> <<>>]

NoRow == [user_id |-> 0, name |-> <<>>, payload_json |-> <<>>]

\* A handler's local variables: user["id"], name, currency, the form, tx_id,
\* the fetched ledger rows or the parsed payload (tx), the fetched backups row
\* and the position of the for loop.
NoLoc == [uid |-> 0, name |-> <<>>, currency |-> "", form |-> NoForm,
          tx_id |-> 0, tx |-> <<>>, row |-> NoRow, i |-> 0]

\* The session uid of the client each worker serves: both workers serve the
\* employee, or worker 1 serves the admin.
Sessions == {<<2, 2>>, <<1, 2>>}

\* The page of a response that is not the reports page.
NoPage == [rows |-> <<>>, sumGBP |-> Zero, sumEUR |-> Zero, sumKZ |-> 0]

\* A response: the worker that produced it, the user it goes to, the
\* statement the handler ended at, the flashed message ("404" and "500" for
\* abort(404) and an exception, "reports" for the rendered reports page) and
\* the values handed to the reports template.
NoFlash == [w |-> 0, uid |-> 0, at |-> "", msg |-> "", page |-> NoPage]

\* The content of a ledger row: every field except id, user_id, created_at.
Content(r) ==
  [date |-> r.date, time |-> r.time, client |-> r.client, origin |-> r.origin,
   currency |-> r.currency, amount |-> r.amount, recipient |-> r.recipient,
   bank |-> r.bank, kz |-> r.kz]

Contents(rows) == [i \in 1..Len(rows) |-> Content(rows[i])]

NoCapture == [made |-> FALSE, tx |-> <<>>, listing |-> <<>>]

\* The (owner, name) keys a snapshot can be stored under.
Keys == Users \X {Strip(n) : n \in NameInputs}

\* ------------------------------------------------------------------- state
VARIABLES
  transactions,   \* committed rows of the transactions relation, rowid order
  backups,        \* committed rows of the backups relation
  lock,           \* worker holding the database write lock, 0 if none
  wtransactions,  \* the lock holder's uncommitted view of transactions
  wbackups,       \* the lock holder's uncommitted view of backups
  nextId,         \* next fresh transaction identifier
  session,        \* per worker: the uid in the session of the client it serves
  pc,             \* per worker: the statement its handler executes next
  loc,            \* per worker: the handler's local variables
  flash,          \* the response the last step produced, NoFlash if none
  nreq,           \* number of requests received so far
  pre,            \* per worker: the owner's committed rows when its capture read them
  captured        \* per key: ledger and listing at the last committed capture

vars == <<transactions, backups, lock, wtransactions, wbackups, nextId,
          session, pc, loc, flash, nreq, pre, captured>>

Init ==
  /\ transactions = <<>>
  /\ backups = {}
  /\ lock = 0
  /\ wtransactions = <<>>
  /\ wbackups = {}
  /\ nextId = 1
  /\ session \in Sessions
  /\ pc = [w \in Workers |-> "idle"]
  /\ loc = [w \in Workers |-> NoLoc]
  /\ flash = NoFlash
  /\ nreq = 0
  /\ pre = [w \in Workers |-> <<>>]
  /\ captured = [k \in Keys |-> NoCapture]

\* ----------------------------------------------------------- request ends
\* The handler returns without having opened a transaction.
Return(w, msg) ==
  /\ pc' = [pc EXCEPT ![w] = "idle"]
  /\ loc' = [loc EXCEPT ![w] = NoLoc]
  /\ pre' = [pre EXCEPT ![w] = <<>>]
  /\ flash' = [w |-> w, uid |-> session[w], at |-> "start", msg |-> msg,
               page |-> NoPage]
  /\ nreq < MaxReq
  /\ nreq' = nreq + 1
  /\ UNCHANGED <<transactions, backups, lock, wtransactions, wbackups, nextId,
                 captured, session>>

\* The handler goes on to statement p with locals l.
Proceed(w, p, l) ==
  /\ pc' = [pc EXCEPT ![w] = p]
  /\ loc' = [loc EXCEPT ![w] = l]
  /\ pre' = [pre EXCEPT ![w] = IF p \in {"bk_insert", "rs_insert"}
                                THEN OwnerRows(transactions, l.uid) ELSE <<>>]
  /\ nreq < MaxReq
  /\ nreq' = nreq + 1
  /\ flash' = NoFlash
  /\ UNCHANGED <<transactions, backups, lock, wtransactions, wbackups, nextId,
                 captured, session>>

\* Variant of CanWrite: a statement that writes does not wait for the lock.
CanWriteUnlocked(w) == TRUE

\* A statement that writes opens the transaction if none is open; it can run
\* only while no other connection holds the write lock.
CanWrite(w) == lock \in {0, w}

\* Variant of Rollback: every statement is committed as it executes.
RollbackKeepsWork(committed, working) == working

\* What closing the connection without commit leaves in a relation.
Rollback(committed, working) == committed

\* Variant of OnError: an error of the snapshot write is caught and the
\* handler carries on with its delete.
OnErrorCarryOn(p) == IF p = "rs_insert" THEN "rs_delete" ELSE "idle"

\* Where control goes when the statement at p raises: out of the handler.
OnError(p) == "idle"

\* ----------------------------------------------------------------- save_tx
\* The handler reads nothing from the database before its INSERT, so the
\* request and the INSERT are one step; a request that finds the write lock
\* held for longer than the busy timeout raises.
SaveTx(w) ==
  /\ pc[w] = "idle"
  /\ \E u \in {CurrentUser(session[w])}, in \in TxInputs :
       LET currency == in[1]
           d == in[2]
       IN IF ~LoginRequired(session[w]) THEN Return(w, "login")
          ELSE IF currency \notin {"GBP", "EUR"} THEN Return(w, "404")
          ELSE IF ~RequiredOk(d)
               THEN Return(w, "Please fill the required fields")
          ELSE IF ~FloatOk(d.amount) \/ ~FloatOk(d.kz) THEN Return(w, "500")
          ELSE IF ~CanWrite(w) THEN Return(w, "500")
          ELSE /\ nextId <= MaxId
               /\ nreq < MaxReq
               /\ nreq' = nreq + 1
               /\ lock' = w
               /\ wtransactions' = Append(wtransactions,
                                          NewRow(nextId, u, currency, d))
               /\ nextId' = nextId + 1
               /\ pc' = [pc EXCEPT ![w] = "tx_commit"]
               /\ loc' = [loc EXCEPT ![w] = [NoLoc EXCEPT !.uid = u,
                                                          !.currency = currency,
                                                          !.form = d]]
               /\ flash' = NoFlash
               /\ UNCHANGED <<transactions, backups, wbackups, pre, captured,
                              session>>

\* ------------------------------------------------------------------ del_tx
\* As save_tx: no read precedes the DELETE.
DelTx(w) ==
  /\ pc[w] = "idle"
  /\ \E u \in {CurrentUser(session[w])}, i \in TxIdInputs :
       /\ i < nextId
       /\ IF ~LoginRequired(session[w]) THEN Return(w, "login")
          ELSE IF ~CanWrite(w) THEN Return(w, "500")
          ELSE /\ nreq < MaxReq
               /\ nreq' = nreq + 1
               /\ lock' = w
               /\ wtransactions' = IF Role(u) = "admin"
                                   THEN DeleteById(wtransactions, i)
                                   ELSE DeleteByIdUser(wtransactions, i, u)
               /\ pc' = [pc EXCEPT ![w] = "del_commit"]
               /\ loc' = [loc EXCEPT ![w] = [NoLoc EXCEPT !.uid = u, !.tx_id = i]]
               /\ flash' = NoFlash
               /\ UNCHANGED <<transactions, backups, wbackups, nextId, pre,
                              captured, session>>

\* ------------------------------------------------------------ reports_page
\* The two SELECTs run outside any transaction, on the committed database.
ReportsPage(w) ==
  /\ pc[w] = "idle"
  /\ nreq < MaxReq
  /\ nreq' = nreq + 1
  /\ flash' = IF ~LoginRequired(session[w])
               THEN [w |-> w, uid |-> session[w], at |-> "start",
                     msg |-> "login", page |-> NoPage]
               ELSE [w |-> w, uid |-> session[w], at |-> "start",
                     msg |-> "reports",
                     page |-> ReportPage(transactions,
                                         CurrentUser(session[w]))]
  /\ UNCHANGED <<transactions, backups, lock, wtransactions, wbackups, nextId,
                 session, pc, loc, pre, captured>>

\* ------------------------------------------------------------- save_backup
StartSaveBackup(w) ==
  /\ pc[w] = "idle"
  /\ \E u \in {CurrentUser(session[w])}, n \in NameInputs :
       LET name == Strip(n) IN
       IF ~LoginRequired(session[w]) THEN Return(w, "login")
       ELSE IF ~Truthy(name) THEN Return(w, "Provide a backup name")
       ELSE Proceed(w, "bk_insert",
                    [NoLoc EXCEPT !.uid = u, !.name = name,
                                  !.tx = SelectLedger(transactions, u)])

BkInsert(w) ==
  /\ pc[w] = "bk_insert"
  /\ CanWrite(w)
  /\ lock' = w
  /\ wbackups' = InsertOrReplace(wbackups, loc[w].uid, loc[w].name,
                                 Dumps(loc[w].tx))
  /\ pc' = [pc EXCEPT ![w] = "bk_commit"]
  /\ UNCHANGED <<transactions, backups, wtransactions, nextId, loc, nreq, pre,
                 captured, session>>
  /\ flash' = NoFlash

\* ------------------------------------------------------------- load_backup
StartLoadBackup(w) ==
  /\ pc[w] = "idle"
  /\ \E u \in {CurrentUser(session[w])}, n \in NameInputs :
       LET name == Strip(n)
           rows == SelectBackup(backups, u, name)
       IN IF ~LoginRequired(session[w]) THEN Return(w, "login")
          ELSE IF rows = {} THEN Return(w, "Backup not found")
          ELSE Proceed(w, "ld_delete",
                       [NoLoc EXCEPT !.uid = u, !.name = name,
                                     !.row = FetchOne(rows)])

LdDelete(w) ==
  /\ pc[w] = "ld_delete"
  /\ CanWrite(w)
  /\ lock' = w
  /\ wtransactions' = DeleteLedger(wtransactions, loc[w].uid)
  /\ loc' = [loc EXCEPT ![w].tx = Loads(loc[w].row.payload_json), ![w].i = 1]
  /\ pc' = [pc EXCEPT ![w] = IF Loads(loc[w].row.payload_json) = <<>>
                             THEN "ld_commit" ELSE "ld_insert"]
  /\ UNCHANGED <<transactions, backups, wbackups, nextId, nreq, pre,
                 captured, session>>
  /\ flash' = NoFlash

LdInsert(w) ==
  /\ pc[w] = "ld_insert"
  /\ CanWrite(w)
  /\ nextId <= MaxId
  /\ lock' = w
  /\ wtransactions' = Append(wtransactions,
                        RestoredRow(nextId, loc[w].uid, loc[w].tx[loc[w].i]))
  /\ nextId' = nextId + 1
  /\ loc' = [loc EXCEPT ![w].i = loc[w].i + 1]
  /\ pc' = [pc EXCEPT ![w] = IF loc[w].i = Len(loc[w].tx) THEN "ld_commit"
                             ELSE "ld_insert"]
  /\ UNCHANGED <<transactions, backups, wbackups, nreq, pre, captured, session>>
  /\ flash' = NoFlash

\* --------------------------------------------------------- do_reset_totals
StartResetTotals(w) ==
  /\ pc[w] = "idle"
  /\ \E u \in {CurrentUser(session[w])}, n \in NameInputs :
       IF ~LoginRequired(session[w]) THEN Return(w, "login")
       ELSE Proceed(w, "rs_insert",
                    [NoLoc EXCEPT !.uid = u, !.name = Strip(n),
                                  !.tx = SelectLedger(transactions, u)])

RsInsert(w) ==
  /\ pc[w] = "rs_insert"
  /\ CanWrite(w)
  /\ lock' = w
  /\ wbackups' = InsertOrReplace(wbackups, loc[w].uid, loc[w].name,
                                 Dumps(loc[w].tx))
  /\ pc' = [pc EXCEPT ![w] = "rs_delete"]
  /\ UNCHANGED <<transactions, backups, wtransactions, nextId, loc, nreq, pre,
                 captured, session>>
  /\ flash' = NoFlash

RsDelete(w) ==
  /\ pc[w] = "rs_delete"
  /\ CanWrite(w)
  /\ lock' = w
  /\ wtransactions' = DeleteLedger(wtransactions, loc[w].uid)
  /\ pc' = [pc EXCEPT ![w] = "rs_commit"]
  /\ UNCHANGED <<transactions, backups, wbackups, nextId, loc, nreq, pre,
                 captured, session>>
  /\ flash' = NoFlash

\* ------------------------------------------------------- commit and failure
CommitPcs == {"tx_commit", "del_commit", "bk_commit", "ld_commit", "rs_commit"}

CapturePcs == {"bk_commit", "rs_commit"}

Flashed(p) ==
  CASE p = "tx_commit" -> "Transaction saved"
    [] p = "del_commit" -> "Deleted"
    [] p = "bk_commit" -> "Backup saved"
    [] p = "ld_commit" -> "Backup loaded"
    [] p = "rs_commit" -> "Totals reset and backup saved"

\* db.commit(): the worker's changes become the committed database.
Commit(w) ==
  /\ pc[w] \in CommitPcs
  /\ lock = w
  /\ transactions' = wtransactions
  /\ backups' = wbackups
  /\ lock' = 0
  /\ UNCHANGED <<wtransactions, wbackups, nextId, session>>
  /\ captured' =
       IF pc[w] \in CapturePcs
       THEN [captured EXCEPT ![<<loc[w].uid, loc[w].name>>] =
               [made |-> TRUE, tx |-> Contents(pre[w]),
                listing |-> Contents(OrderBy(pre[w], <<>>))]]
       ELSE captured
  /\ pc' = [pc EXCEPT ![w] = "idle"]
  /\ loc' = [loc EXCEPT ![w] = NoLoc]
  /\ pre' = [pre EXCEPT ![w] = <<>>]
  /\ flash' = [w |-> w, uid |-> loc[w].uid, at |-> pc[w],
               msg |-> Flashed(pc[w]), page |-> NoPage]
  /\ UNCHANGED nreq

\* The pending statement raises (storage error, lock timeout) or the worker
\* dies: nothing is committed and the connection is closed.
Fail(w) ==
  /\ pc[w] # "idle"
  /\ pc' = [pc EXCEPT ![w] = OnError(pc[w])]
  /\ flash' = [w |-> w, uid |-> loc[w].uid, at |-> pc[w], msg |-> "500",
               page |-> NoPage]
  /\ IF OnError(pc[w]) = "idle"
     THEN /\ loc' = [loc EXCEPT ![w] = NoLoc]
          /\ pre' = [pre EXCEPT ![w] = <<>>]
          /\ IF lock = w
             THEN /\ lock' = 0
                  /\ wtransactions' = Rollback(transactions, wtransactions)
                  /\ wbackups' = Rollback(backups, wbackups)
                  /\ transactions' = Rollback(transactions, wtransactions)
                  /\ backups' = Rollback(backups, wbackups)
             ELSE UNCHANGED <<lock, wtransactions, wbackups, transactions,
                              backups>>
     ELSE UNCHANGED <<loc, pre, lock, wtransactions, wbackups, transactions,
                      backups>>
  /\ UNCHANGED <<nextId, nreq, captured, session>>

Next ==
  \E w \in Workers :
    \/ SaveTx(w)
    \/ ReportsPage(w)
    \/ DelTx(w)
    \/ StartSaveBackup(w) \/ BkInsert(w)
    \/ StartLoadBackup(w) \/ LdDelete(w) \/ LdInsert(w)
    \/ StartResetTotals(w) \/ RsInsert(w) \/ RsDelete(w)
    \/ Commit(w)
    \/ Fail(w)

Spec == Init /\ [][Next]_vars

\* ------------------------------------------------- a database already in use
\* The database after the employee has appended F1, reset its totals under
\* the blank name, appended F2 and captured the ledger under "x": two
\* snapshots with different payloads and one live record.
SeedLedger == <<NewRow(2, 2, "EUR", F2)>>

SeedReset == <<NewRow(1, 2, "GBP", F1)>>

SeedBackups ==
  {[user_id |-> 2, name |-> <<>>,
    payload_json |-> Dumps(SelectLedger(SeedReset, 2))],
   [user_id |-> 2, name |-> <<"x">>,
    payload_json |-> Dumps(SelectLedger(SeedLedger, 2))]}

SeedCaptured ==
  [k \in Keys |->
     IF k = <<2, <<>>>>
     THEN [made |-> TRUE, tx |-> Contents(SeedReset),
           listing |-> Contents(OrderBy(SeedReset, <<>>))]
     ELSE IF k = <<2, <<"x">>>>
     THEN [made |-> TRUE, tx |-> Contents(SeedLedger),
           listing |-> Contents(OrderBy(SeedLedger, <<>>))]
     ELSE NoCapture]

\* Both workers serve the employee, and two more requests arrive.
InitSeeded ==
  /\ transactions = SeedLedger
  /\ backups = SeedBackups
  /\ lock = 0
  /\ wtransactions = SeedLedger
  /\ wbackups = SeedBackups
  /\ nextId = 3
  /\ session = <<2, 2>>
  /\ pc = [w \in Workers |-> "idle"]
  /\ loc = [w \in Workers |-> NoLoc]
  /\ flash = NoFlash
  /\ nreq = MaxReq - 2
  /\ pre = [w \in Workers |-> <<>>]
  /\ captured = SeedCaptured

SpecSeeded == InitSeeded /\ [][Next]_vars

\* ------------------------------------------- a client that is not logged in
\* Worker 1 serves a client whose session has no uid (0), or a uid that no
\* row of users has (3); worker 2 serves the employee.
AnonSessions == {<<0, 2>>, <<3, 2>>}

\* The database already in use, and two more requests arrive.
InitAnon ==
  /\ transactions = SeedLedger
  /\ backups = SeedBackups
  /\ lock = 0
  /\ wtransactions = SeedLedger
  /\ wbackups = SeedBackups
  /\ nextId = 3
  /\ session \in AnonSessions
  /\ pc = [w \in Workers |-> "idle"]
  /\ loc = [w \in Workers |-> NoLoc]
  /\ flash = NoFlash
  /\ nreq = MaxReq - 2
  /\ pre = [w \in Workers |-> <<>>]
  /\ captured = SeedCaptured

SpecAnon == InitAnon /\ [][Next]_vars

\* ----------------------------------------------- reports_page on any ledger
\* Forms of records to report on: 10.00 GBP, 5.50 GBP and 20.00 EUR with
\* 16500, 9075 and 33000 Kz sent, and two GBP amounts, 2^53 and 1, that are
\* both doubles while their sum is not.
R1 == [F1 EXCEPT !.amount = <<"1", "0", ".", "0", "0">>,
                 !.kz = <<"1", "6", "5", "0", "0">>]

R2 == [F1 EXCEPT !.amount = <<"5", ".", "5", "0">>,
                 !.kz = <<"9", "0", "7", "5">>]

R3 == [F1 EXCEPT !.amount = <<"2", "0", ".", "0", "0">>,
                 !.kz = <<"3", "3", "0", "0", "0">>]

R4 == [F1 EXCEPT !.amount = <<"9", "0", "0", "7", "1", "9", "9", "2", "5",
                              "4", "7", "4", "0", "9", "9", "2">>,
                 !.kz = <<"1">>]

R5 == [F1 EXCEPT !.amount = <<"1">>, !.kz = <<"1">>]

ReportInputs == {<<"GBP", R1>>, <<"GBP", R2>>, <<"EUR", R3>>, <<"GBP", R4>>,
                 <<"GBP", R5>>}

\* The ledger after the appends f[1], f[2], ... (user, currency and form of
\* each) have committed in that order.
TableOf(f) ==
  [i \in 1..Len(f) |-> NewRow(i, f[i][1], f[i][2][1], f[i][2][2])]

InitReports ==
  /\ \E n \in 0..MaxRows :
       \E f \in [1..n -> Users \X ReportInputs] :
         /\ transactions = TableOf(f)
         /\ wtransactions = TableOf(f)
         /\ nextId = n + 1
  /\ backups = {}
  /\ lock = 0
  /\ wbackups = {}
  /\ session \in Sessions
  /\ pc = [w \in Workers |-> "idle"]
  /\ loc = [w \in Workers |-> NoLoc]
  /\ flash = NoFlash
  /\ nreq = 0
  /\ pre = [w \in Workers |-> <<>>]
  /\ captured = [k \in Keys |-> NoCapture]

NextReports == \E w \in Workers : ReportsPage(w)

SpecReports == InitReports /\ [][NextReports]_vars

\* ------------------------------------------------------------ properties
\* Worker w's handler, at commit statement p, completes in this step.
Completes(w, p) ==
  /\ pc[w] = p
  /\ pc'[w] = "idle"
  /\ flash'.w = w
  /\ flash'.msg = Flashed(p)

\* The statement of worker w at p raises in this step.
Raises(w, p) ==
  /\ pc[w] = p
  /\ flash'.w = w
  /\ flash'.msg = "500"

\* The parsed payload of the one snapshot keyed (u, n) in bk.
PayloadOf(bk, u, n) == Loads(FetchOne(SelectBackup(bk, u, n)).payload_json)

HasSnapshot(bk, u, n) == Cardinality(SelectBackup(bk, u, n)) = 1

ResetPcs == {"rs_insert", "rs_delete", "rs_commit"}

RestorePcs == {"ld_delete", "ld_insert", "ld_commit"}

\* C1: a resetWithBackup(O, name) with a non-empty name that completes leaves
\* exactly one snapshot keyed (O, name), whose payload is the content, in
\* order, of the records O's ledger held when the call read it, and leaves
\* O's committed ledger empty.
C1_ResetCapturesAndClears ==
  [][\A w \in Workers :
       (Completes(w, "rs_commit") /\ Truthy(loc[w].name)) =>
         /\ HasSnapshot(backups', loc[w].uid, loc[w].name)
         /\ PayloadOf(backups', loc[w].uid, loc[w].name) = Contents(pre[w])
         /\ OwnerRows(transactions', loc[w].uid) = <<>>]_vars

\* A reset of a two-record ledger has just completed.
C1_Witness ==
  /\ flash.at = "rs_commit"
  /\ flash.msg = "Totals reset and backup saved"
  /\ OwnerRows(transactions, flash.uid) = <<>>
  /\ \E b \in backups :
       /\ b.user_id = flash.uid
       /\ Truthy(b.name)
       /\ Len(Loads(b.payload_json)) = 2

\* C2: a reset never removes a record it has not captured: when it commits,
\* the snapshot it writes holds the content of every record of O's ledger
\* that the commit removes (the outcome of a serial order of the reset and
\* any concurrent append).
C2_ResetRemovesOnlyCaptured ==
  [][\A w \in Workers :
       Completes(w, "rs_commit") =>
         PayloadOf(backups', loc[w].uid, loc[w].name)
           = Contents(OwnerRows(transactions, loc[w].uid))]_vars

\* C3: the committed ledger of an owner changes only in the step in which a
\* handler commits; when that handler is a restore, the owner is the caller
\* and the ledger becomes the whole payload.  A restore that fails or dies
\* after its delete therefore leaves the committed ledger as it was, and no
\* reader sees a ledger that is deleted but not fully re-inserted.
C3_NoPartialRestore ==
  [][\A u \in Users :
       OwnerRows(transactions', u) # OwnerRows(transactions, u) =>
         \E w \in Workers :
           /\ \E p \in CommitPcs : Completes(w, p)
           /\ pc[w] = "ld_commit" =>
                /\ loc[w].uid = u
                /\ Contents(OwnerRows(transactions', u))
                     = Loads(loc[w].row.payload_json)]_vars

\* A restore has deleted the owner's records and re-inserted only some of the
\* payload, while the committed ledger still holds the records.
C3_Witness ==
  \E w \in Workers :
    /\ pc[w] = "ld_insert"
    /\ lock = w
    /\ loc[w].i > 1
    /\ OwnerRows(transactions, loc[w].uid) # <<>>
    /\ Len(OwnerRows(wtransactions, loc[w].uid)) < Len(loc[w].tx)

\* C4: when the snapshot write of a reset raises, the handler ends there: the
\* delete is not executed and the committed relations are what they were.
C4_CaptureFailureKeepsLedger ==
  [][\A w \in Workers :
       Raises(w, "rs_insert") =>
         /\ pc'[w] = "idle"
         /\ lock' # w
         /\ transactions' = transactions
         /\ backups' = backups]_vars

\* The snapshot write of a reset has just raised and the owner still has
\* records.
C4_Witness ==
  /\ flash.at = "rs_insert"
  /\ flash.msg = "500"
  /\ \A w \in Workers : pc[w] = "idle"
  /\ lock = 0
  /\ Len(OwnerRows(transactions, flash.uid)) >= 1

\* C5 as stated: once the delete of a reset has executed, the snapshot is
\* already in the committed backups relation.
C5_SnapshotCommittedBeforeDelete ==
  \A w \in Workers :
    pc[w] = "rs_commit" =>
      [user_id |-> loc[w].uid, name |-> loc[w].name,
       payload_json |-> Dumps(loc[w].tx)] \in backups

\* C5 amended: the delete of a reset executes after the snapshot write, in
\* the same transaction, and the two are committed together: the handler
\* reaches its delete only holding the write lock with the snapshot written,
\* and the step that commits the delete commits the snapshot.
C5_SnapshotAndDeleteCommitTogether ==
  [][\A w \in Workers :
       LET row == [user_id |-> loc[w].uid, name |-> loc[w].name,
                   payload_json |-> Dumps(loc[w].tx)]
       IN /\ pc[w] \in {"rs_delete", "rs_commit"} =>
               /\ lock = w
               /\ row \in wbackups
               /\ OwnerRows(transactions', loc[w].uid)
                    # OwnerRows(transactions, loc[w].uid) => row \in backups'
          /\ pc[w] = "rs_insert" /\ pc'[w] = "rs_delete" =>
               /\ row \in wbackups'
               /\ wtransactions' = wtransactions]_vars

\* A reset has executed its delete on a non-empty ledger and not yet
\* committed: the snapshot is not in the committed relation.
C5_Witness ==
  \E w \in Workers :
    /\ pc[w] = "rs_commit"
    /\ loc[w].tx # <<>>
    /\ SelectBackup(backups, loc[w].uid, loc[w].name) = {}
    /\ OwnerRows(wtransactions, loc[w].uid) = <<>>
    /\ OwnerRows(transactions, loc[w].uid) # <<>>

\* C6: a reset whose name is empty after trimming changes nothing: in no
\* step of such a handler does a committed relation change (no snapshot is
\* created or overwritten, the ledger is not wiped).
C6_BlankNameResetChangesNothing ==
  [][\A w \in Workers :
       (pc[w] \in ResetPcs /\ ~Truthy(loc[w].name) /\ flash'.w = w) =>
         /\ transactions' = transactions
         /\ backups' = backups]_vars

\* C7: a restore that completes leaves the caller's committed ledger with
\* the content of the payload of the snapshot (O, name) it read, record for
\* record and in payload order, and with none of the records (identifiers)
\* the ledger held before.
C7_RestoreReplacesLedger ==
  [][\A w \in Workers :
       Completes(w, "ld_commit") =>
         LET u == loc[w].uid
             old == OwnerRows(transactions, u)
             new == OwnerRows(transactions', u)
         IN /\ loc[w].row.user_id = u
            /\ loc[w].row.name = loc[w].name
            /\ Contents(new) = Loads(loc[w].row.payload_json)
            /\ \A i \in 1..Len(new), j \in 1..Len(old) : new[i].id # old[j].id]_vars

\* A restore of a non-empty payload is about to commit over a ledger that
\* holds a record whose content is not in the payload.
C7_Witness ==
  \E w \in Workers :
    /\ pc[w] = "ld_commit"
    /\ loc[w].tx # <<>>
    /\ \E i \in 1..Len(OwnerRows(transactions, loc[w].uid)) :
         \A j \in 1..Len(loc[w].tx) :
           Content(OwnerRows(transactions, loc[w].uid)[i]) # loc[w].tx[j]

\* C8: when a restore of the snapshot stored under (O, x) completes, the
\* listing of O's ledger has the content and the order the listing had when
\* that snapshot was captured, whatever the ledger held in between.
C8_CaptureRestoreRoundTrip ==
  [][\A w \in Workers :
       (Completes(w, "ld_commit") /\ loc[w].row \in backups) =>
         /\ captured[<<loc[w].uid, loc[w].name>>].made
         /\ Contents(ListOwn(transactions', loc[w].uid))
              = captured[<<loc[w].uid, loc[w].name>>].listing]_vars

\* A restore into an emptied ledger is about to commit two records whose
\* listing is not in insertion order, from the snapshot stored under its key.
C8_Witness ==
  \E w \in Workers :
    LET rows == OwnerRows(wtransactions, loc[w].uid) IN
    /\ pc[w] = "ld_commit"
    /\ lock = w
    /\ OwnerRows(transactions, loc[w].uid) = <<>>
    /\ loc[w].row \in backups
    /\ Len(rows) = 2
    /\ ListOwn(wtransactions, loc[w].uid) # rows
    /\ captured[<<loc[w].uid, loc[w].name>>].tx = Contents(rows)
    /\ captured[<<loc[w].uid, loc[w].name>>].listing # Contents(rows)

\* C9: in every state, committed or inside a transaction, there is at most
\* one snapshot per (owner, name); a committed snapshot exists exactly for
\* the keys captured so far and holds the content of the ledger read by the
\* capture or reset that committed last under its key.
C9_OneSnapshotPerKeyLatestContent ==
  \A k \in Keys :
    /\ Cardinality(SelectBackup(backups, k[1], k[2])) <= 1
    /\ Cardinality(SelectBackup(wbackups, k[1], k[2])) <= 1
    /\ captured[k].made <=> SelectBackup(backups, k[1], k[2]) # {}
    /\ captured[k].made => PayloadOf(backups, k[1], k[2]) = captured[k].tx

\* A capture is about to commit over a committed snapshot of the same key
\* that holds a different payload.
C9_Witness ==
  \E w \in Workers :
    /\ pc[w] = "bk_commit"
    /\ HasSnapshot(backups, loc[w].uid, loc[w].name)
    /\ HasSnapshot(wbackups, loc[w].uid, loc[w].name)
    /\ PayloadOf(backups, loc[w].uid, loc[w].name) # loc[w].tx
    /\ PayloadOf(wbackups, loc[w].uid, loc[w].name) = loc[w].tx

\* C10: the committed snapshots change only in the step in which a capture
\* or a reset commits, and then every snapshot under another key than the
\* handler's (owner, name) is unchanged; append, deleteOne and restore leave
\* the backups relation as it is.
C10_SnapshotsDetached ==
  [][backups' # backups =>
       \E w \in Workers :
         /\ \E p \in CapturePcs : Completes(w, p)
         /\ {b \in backups' : b.user_id # loc[w].uid \/ b.name # loc[w].name}
              = {b \in backups : b.user_id # loc[w].uid \/ b.name # loc[w].name}]_vars

\* A capture or reset has just committed while a snapshot with a non-empty
\* payload is stored under another key.
C10_Witness ==
  /\ flash.at \in CapturePcs
  /\ flash.msg \in {"Backup saved", "Totals reset and backup saved"}
  /\ \E b, c \in backups :
       /\ b.user_id = flash.uid
       /\ c.user_id = flash.uid
       /\ b.name # c.name
       /\ b.payload_json # <<>>
       /\ c.payload_json # b.payload_json

\* The committed snapshots of owner u.
SnapshotsOf(bk, u) == {b \in bk : b.user_id = u}

\* C11: the committed ledger records and the committed snapshots of an
\* owner B change only in a step in which a handler commits, and that handler
\* serves B itself or is the delete of a caller with the admin role: no
\* operation of a non-elevated caller A # B changes anything of B, whatever
\* identifier or name it carries.
C11_OwnerIsolationOfEffects ==
  [][\A u \in Users :
       (\/ OwnerRows(transactions', u) # OwnerRows(transactions, u)
        \/ SnapshotsOf(backups', u) # SnapshotsOf(backups, u)) =>
         \E w \in Workers :
           /\ \E p \in CommitPcs : Completes(w, p)
           /\ \/ loc[w].uid = u
              \/ Role(loc[w].uid) = "admin" /\ pc[w] = "del_commit"]_vars

\* An employee's delete that carries the identifier of a record of another
\* owner has executed and removed nothing.
C11_Witness ==
  \E w \in Workers :
    /\ pc[w] = "del_commit"
    /\ lock = w
    /\ Role(loc[w].uid) = "employee"
    /\ wtransactions = transactions
    /\ \E i \in 1..Len(transactions) :
         /\ transactions[i].id = loc[w].tx_id
         /\ transactions[i].user_id # loc[w].uid

\* C12: for a non-elevated caller the reports page (rows and the three
\* sums) and the payload a capture reads and writes are what they would be
\* if the committed ledger held the caller's rows only: they do not depend
\* on the records of other owners.
C12_OwnerIsolationOfReads ==
  [][\A w \in Workers :
       /\ (flash'.w = w /\ flash'.msg = "reports"
             /\ Role(flash'.uid) # "admin") =>
            flash'.page = ReportPage(OwnerRows(transactions, flash'.uid),
                                     flash'.uid)
       /\ (pc[w] = "idle" /\ pc'[w] = "bk_insert"
             /\ Role(loc'[w].uid) # "admin") =>
            loc'[w].tx = SelectLedger(OwnerRows(transactions, loc'[w].uid),
                                      loc'[w].uid)
       /\ (pc[w] = "bk_insert" /\ pc'[w] = "bk_commit") =>
            [user_id |-> loc[w].uid, name |-> loc[w].name,
             payload_json |-> Dumps(loc[w].tx)] \in wbackups']_vars

\* An employee has just been shown its reports page, with a row of its own,
\* while the committed ledger holds a record of another owner.
C12_Witness ==
  /\ flash.msg = "reports"
  /\ Role(flash.uid) = "employee"
  /\ flash.page.rows # <<>>
  /\ \E i \in 1..Len(transactions) : transactions[i].user_id # flash.uid

\* C13: for a caller with the admin role, capture and reset read the
\* caller's own rows only; capture, reset and restore, when they commit,
\* leave the rows and the snapshots of every other owner as they were; the
\* delete removes the record with the given identifier whoever owns it; the
\* reports page lists every row of the ledger.
C13_AdminSnapshotsOwnerScoped ==
  [][\A w \in Workers :
       /\ (pc[w] = "idle" /\ pc'[w] \in {"bk_insert", "rs_insert"}
             /\ Role(loc'[w].uid) = "admin") =>
            /\ Len(loc'[w].tx) = Len(OwnerRows(transactions, loc'[w].uid))
            /\ \A i \in 1..Len(loc'[w].tx) :
                 loc'[w].tx[i]
                   = Project(OwnerRows(transactions, loc'[w].uid)[i])
       /\ (Role(loc[w].uid) = "admin"
             /\ \E p \in {"bk_commit", "ld_commit", "rs_commit"} :
                  Completes(w, p)) =>
            \A u \in Users \ {loc[w].uid} :
              /\ OwnerRows(transactions', u) = OwnerRows(transactions, u)
              /\ SnapshotsOf(backups', u) = SnapshotsOf(backups, u)
       /\ (Role(loc[w].uid) = "admin" /\ Completes(w, "del_commit")) =>
            \A i \in 1..Len(transactions') :
              transactions'[i].id # loc[w].tx_id
       /\ (flash'.w = w /\ flash'.msg = "reports"
             /\ Role(flash'.uid) = "admin") =>
            /\ Len(flash'.page.rows) = Len(transactions)
            /\ \A i \in 1..Len(transactions) :
                 \E j \in 1..Len(flash'.page.rows) :
                   flash'.page.rows[j] = transactions[i]]_vars

\* The reset of an admin that has records of its own is about to commit
\* while another owner has records.
C13_Witness ==
  \E w \in Workers :
    /\ pc[w] = "rs_commit"
    /\ lock = w
    /\ Role(loc[w].uid) = "admin"
    /\ loc[w].tx # <<>>
    /\ \E i \in 1..Len(wtransactions) : wtransactions[i].user_id # loc[w].uid

\* C14: a restore proceeds to its delete only with a snapshot stored under
\* the caller's own (owner, name) key; otherwise it answers "Backup not
\* found", and that answer leaves the ledger and the snapshots, committed
\* and working, as they were.
C14_RestoreOfMissingSnapshot ==
  [][\A w \in Workers :
       /\ (pc[w] = "idle" /\ flash'.w = w
             /\ flash'.msg = "Backup not found") =>
            /\ pc'[w] = "idle"
            /\ transactions' = transactions
            /\ backups' = backups
            /\ wtransactions' = wtransactions
            /\ wbackups' = wbackups
       /\ (pc[w] = "idle" /\ pc'[w] = "ld_delete") =>
            /\ loc'[w].row \in backups
            /\ loc'[w].row.user_id = session[w]
            /\ loc'[w].row.name = loc'[w].name]_vars

\* A restore has just been answered "Backup not found" by a caller without
\* any snapshot, while another owner has a snapshot under every name.
C14_Witness ==
  /\ flash.msg = "Backup not found"
  /\ SnapshotsOf(backups, flash.uid) = {}
  /\ \A n \in NameInputs :
       \E b \in backups : b.user_id # flash.uid /\ b.name = Strip(n)

\* C15: a restore that has executed its delete holds the write lock until it
\* ends, so two restores are never both past their delete, and the working
\* ledger of the caller is, record for record, the part of the restore's own
\* payload inserted so far: nothing of another restore's payload is mixed in.
C15_RestoresDoNotInterleave ==
  /\ \A w \in Workers :
       pc[w] \in {"ld_insert", "ld_commit"} =>
         /\ lock = w
         /\ Contents(OwnerRows(wtransactions, loc[w].uid))
              = SubSeq(loc[w].tx, 1, loc[w].i - 1)
  /\ \A v, w \in Workers :
       (pc[v] \in {"ld_insert", "ld_commit"}
          /\ pc[w] \in {"ld_insert", "ld_commit"}) => v = w

\* Two restores of the same owner, of snapshots with different non-empty
\* payloads, are in progress: one has deleted and inserted, the other has
\* read its snapshot and waits for the lock.
C15_Witness ==
  \E v, w \in Workers :
    /\ pc[v] = "ld_commit"
    /\ pc[w] = "ld_delete"
    /\ lock = v
    /\ loc[v].uid = loc[w].uid
    /\ loc[v].tx # <<>>
    /\ Loads(loc[w].row.payload_json) # <<>>
    /\ Loads(loc[w].row.payload_json) # loc[v].tx

\* C16: a delete that completes reports whether it removed a record: its
\* message is "Deleted" exactly when the commit removes a record, and a
\* delete whose identifier matches no record the caller may delete leaves
\* the ledger as it was.
C16_DeleteReportsWhetherRemoved ==
  [][\A w \in Workers :
       Completes(w, "del_commit") =>
         /\ (flash'.msg = "Deleted") <=> (transactions' # transactions)
         /\ (\A i \in 1..Len(transactions) :
               \/ transactions[i].id # loc[w].tx_id
               \/ (Role(loc[w].uid) # "admin"
                     /\ transactions[i].user_id # loc[w].uid)) =>
              transactions' = transactions]_vars

\* Rows r and s are in the order the listing promises: by date descending,
\* then time descending, then the more recently inserted first.
Precedes(r, s) ==
  \/ Before(r, s)
  \/ (r.date = s.date /\ r.time = s.time /\ r.created_at > s.created_at)

\* C17: the rows of every reports page are sorted by date descending, then
\* time descending, and rows with the same date and time are listed with
\* the more recently inserted first.
C17_ListingOrderNewestFirst ==
  flash.msg = "reports" =>
    \A i, j \in 1..Len(flash.page.rows) :
      i < j => Precedes(flash.page.rows[i], flash.page.rows[j])

\* The sum of two signed magnitudes, without rounding.
ExactAdd(x, y) ==
  IF x.neg = y.neg THEN [neg |-> x.neg, mag |-> BigAdd(x.mag, y.mag)]
  ELSE IF BigLess(x.mag, y.mag)
       THEN [neg |-> y.neg, mag |-> BigSub(y.mag, x.mag)]
       ELSE IF x.mag = y.mag THEN Zero
       ELSE [neg |-> x.neg, mag |-> BigSub(x.mag, y.mag)]

\* The exact sum of the amounts in the given currency of the rows of table.
RECURSIVE ExactSum(_, _)
ExactSum(table, currency) ==
  IF table = <<>> THEN Zero
  ELSE IF Head(table).currency = currency
       THEN ExactAdd(Head(table).amount, ExactSum(Tail(table), currency))
       ELSE ExactSum(Tail(table), currency)

RECURSIVE ExactKz(_)
ExactKz(table) ==
  IF table = <<>> THEN 0 ELSE Head(table).kz + ExactKz(Tail(table))

\* C18: the totals on the reports page of a non-elevated owner are the exact
\* sums over the owner's current records: per currency of the source
\* amounts, and of the disbursed amounts.
C18_TotalsAreExactSums ==
  (flash.msg = "reports" /\ Role(flash.uid) # "admin") =>
    LET own == OwnerRows(transactions, flash.uid) IN
    /\ flash.page.sumGBP = ExactSum(own, "GBP")
    /\ flash.page.sumEUR = ExactSum(own, "EUR")
    /\ flash.page.sumKZ = ExactKz(own)

\* The answers that tell the caller its input was rejected.
ValidationMsgs == {"404", "Please fill the required fields",
                   "Provide a backup name", "Backup not found"}

\* C19: a request that ends before its first write, while no connection
\* holds the write lock, ends with a validation answer (for an append: a
\* required field is missing or an amount is not a number) or with the
\* reports page, and changes neither the ledger nor the snapshots.
C19_InvalidAppendIsRejected ==
  [][\A w \in Workers :
       (pc[w] = "idle" /\ pc'[w] = "idle" /\ flash'.w = w /\ lock = 0) =>
         /\ flash'.msg \in ValidationMsgs \cup {"reports"}
         /\ transactions' = transactions
         /\ backups' = backups]_vars

\* C20: every record of the committed ledger has a source amount and a
\* disbursed amount that are not negative and a client name that is not
\* empty after trimming.
C20_RecordsAreWellFormed ==
  \A i \in 1..Len(transactions) :
    /\ FloatNonNeg(transactions[i].amount)
    /\ transactions[i].kz >= 0
    /\ Strip(transactions[i].client) # <<>>

\* The statements of the handlers that write to the database.
WritePcs == {"bk_insert", "ld_delete", "ld_insert", "rs_insert", "rs_delete"}

\* C21: operations on different owners do not serialize: a handler whose next
\* statement writes for owner A is never kept from executing it (made to wait,
\* or failed by the lock timeout) by a transaction that is open for a
\* different owner B.
C21_OwnersDoNotSerialize ==
  \A w \in Workers : \A v \in Workers \ {w} :
    (pc[w] \in WritePcs /\ lock = v /\ loc[v].uid # loc[w].uid) =>
      CanWrite(w)

\* The statements of save_backup after the ledger was read.
SaveBackupPcs == {"bk_insert", "bk_commit"}

\* C22: no step of a capture (its request, its INSERT OR REPLACE, its commit
\* or its failure) changes the ledger: the committed and the working
\* transactions relation keep the same records, identifiers and order for
\* every owner; the committed snapshots change only when the capture commits,
\* and then only the snapshot keyed by the handler's (owner, name) is created
\* or replaced.
C22_CaptureLeavesLedgerUnchanged ==
  [][\A w \in Workers :
       ((pc[w] \in SaveBackupPcs \/ pc'[w] \in SaveBackupPcs)
        /\ pc'[w] # pc[w]) =>
         /\ transactions' = transactions
         /\ wtransactions' = wtransactions
         /\ nextId' = nextId
         /\ IF Completes(w, "bk_commit")
            THEN /\ HasSnapshot(backups', loc[w].uid, loc[w].name)
                 /\ DropKey(backups', loc[w].uid, loc[w].name) =
                      DropKey(backups, loc[w].uid, loc[w].name)
            ELSE backups' = backups]_vars

\* A capture is about to commit while the ledger holds records of its owner
\* and of another owner, and the other owner has a snapshot under the same
\* name.
C22_Witness ==
  \E w \in Workers :
    /\ pc[w] = "bk_commit"
    /\ OwnerRows(transactions, loc[w].uid) # <<>>
    /\ \E i \in 1..Len(transactions) : transactions[i].user_id # loc[w].uid
    /\ \E b \in backups : b.user_id # loc[w].uid /\ b.name = loc[w].name

\* C23: a worker that serves a session without a uid, or with a uid that
\* matches no user, never leaves the login redirect: it opens no transaction,
\* takes no lock, every request it answers is answered with the redirect to
\* login and leaves the committed and the working transactions and backups
\* relations as they were, and no record or snapshot is ever stored for an
\* owner that is not a user.
C23_UnauthenticatedChangesNothing ==
  [][/\ \A w \in Workers :
          session[w] \notin Users =>
            /\ pc'[w] = "idle"
            /\ lock' # w
            /\ flash'.w = w =>
                 /\ flash'.msg = "login"
                 /\ transactions' = transactions
                 /\ backups' = backups
                 /\ wtransactions' = wtransactions
                 /\ wbackups' = wbackups
                 /\ nextId' = nextId
     /\ \A i \in 1..Len(wtransactions') :
          wtransactions'[i].user_id \in Users
     /\ \A b \in wbackups' : b.user_id \in Users]_vars

\* A request whose session carries the uid of no user has just been answered
\* with the redirect to login, on a database that holds records and
\* snapshots, while the other worker has a transaction open.
C23_Witness ==
  \E w \in Workers :
    /\ session[w] = 3
    /\ flash.w = w
    /\ flash.msg = "login"
    /\ lock \notin {0, w}
    /\ transactions # <<>>
    /\ backups # {}

====
